---------------------------- MODULE Spec2Model ----------------------------
(***************************************************************************)
(* Model of src/backend/dwc_normalize_to_csv.py: the normalisation of raw   *)
(* Pl@ntNet occurrence records to Darwin Core and their export as CSV, and  *)
(* of the orchestration of src/backend/app_backend.py.                      *)
(*                                                                          *)
(* Python values are tagged records (PyNone, PyBool, PyInt, PyFloat, PyStr, *)
(* PyList, PyDict).  A Python str is a TLA+ string, read character by       *)
(* character with SubSeq; a Python dict is the sequence of its <<key,       *)
(* value>> items in insertion order.                                        *)
(***************************************************************************)
EXTENDS Integers, Sequences, FiniteSets, TLC

VARIABLES
    pc,            \* control point of the running function
    value,         \* argument of to_iso_date / find_occurrence_list
    result,        \* value returned by to_iso_date / find_occurrence_list
    records,       \* `records` of export_dwc_gbif_csv (list of raw entries)
    dwc_fields,    \* `dwc_fields` (FieldSchema), a sequence of column names
    basis_of_record_map,  \* `basis_of_record_map`, a sequence of <<key, term>>
    n,             \* position of the list comprehension of line 407 in records
    core_rows,     \* `core_rows`, the normalized records built so far
    extra_keys,    \* `extra_keys`
    csv_file,      \* the file at csv_path: whether it exists, and its lines
    k,             \* number of (core, raw) pairs of the zip of line 425 consumed
    fs,            \* the files the pipeline reads and the directory it creates
    run            \* the call in progress: its arguments and what it did so far

vars == <<pc, value, result, records, dwc_fields, basis_of_record_map, n,
          core_rows, extra_keys, csv_file, k, fs, run>>

-----------------------------------------------------------------------------
(* Python str primitives                                                    *)

\* s[a-1:b] of Python: the characters a..b (from 1), cut to the string
Slice(s, a, b) ==
    LET lo == IF a < 1 THEN 1 ELSE a
        hi == IF b > Len(s) THEN Len(s) ELSE b
    IN  IF lo > hi THEN "" ELSE SubSeq(s, lo, hi)

\* the i-th character, "" beyond the ends
Ch(s, i) == Slice(s, i, i)

DigitChars == "0123456789"

LowerChars == "abcdefghijklmnopqrstuvwxyz"

UpperChars == "ABCDEFGHIJKLMNOPQRSTUVWXYZ"

Whitespace == {" ", "\t", "\n", "\r"}

IsDigit(c) == \E i \in 1..Len(DigitChars) : Ch(DigitChars, i) = c

DigitVal(c) == (CHOOSE i \in 1..Len(DigitChars) : Ch(DigitChars, i) = c) - 1

AllDigits(s) == \A i \in 1..Len(s) : IsDigit(Ch(s, i))

Contains(s, c) == \E i \in 1..Len(s) : Ch(s, i) = c

\* s[i:] of Python, i counted from 1 here
From(s, i) == Slice(s, i, Len(s))

RECURSIVE lstrip(_)
lstrip(s) ==
    IF s # "" /\ Ch(s, 1) \in Whitespace THEN lstrip(From(s, 2)) ELSE s

RECURSIVE rstrip(_)
rstrip(s) ==
    IF s # "" /\ Ch(s, Len(s)) \in Whitespace
    THEN rstrip(Slice(s, 1, Len(s) - 1))
    ELSE s

strip(s) == rstrip(lstrip(s))

LowerCh(c) ==
    IF \E i \in 1..Len(UpperChars) : Ch(UpperChars, i) = c
    THEN Ch(LowerChars, CHOOSE i \in 1..Len(UpperChars) : Ch(UpperChars, i) = c)
    ELSE c

UpperCh(c) ==
    IF \E i \in 1..Len(LowerChars) : Ch(LowerChars, i) = c
    THEN Ch(UpperChars, CHOOSE i \in 1..Len(LowerChars) : Ch(LowerChars, i) = c)
    ELSE c

RECURSIVE lower(_)
lower(s) == IF s = "" THEN "" ELSE LowerCh(Ch(s, 1)) \o lower(From(s, 2))

RECURSIVE upper(_)
upper(s) == IF s = "" THEN "" ELSE UpperCh(Ch(s, 1)) \o upper(From(s, 2))

\* s.replace(old, new): every non-overlapping occurrence, left to right
RECURSIVE replace(_, _, _)
replace(s, old, new) ==
    LET At(i) == Slice(s, i, i + Len(old) - 1) = old
    IN  IF \E i \in 1..Len(s) : At(i)
        THEN LET first == CHOOSE i \in 1..Len(s) : At(i) /\ \A j \in 1..(i - 1) : ~At(j)
             IN  Slice(s, 1, first - 1) \o new \o replace(From(s, first + Len(old)), old, new)
        ELSE s

\* decimal text of a natural number, and back
RECURSIVE NatText(_)
NatText(m) ==
    IF m < 10 THEN Ch(DigitChars, m + 1)
    ELSE NatText(m \div 10) \o Ch(DigitChars, (m % 10) + 1)

RECURSIVE NatOfDigits(_)
NatOfDigits(s) ==
    IF s = "" THEN 0
    ELSE 10 * NatOfDigits(Slice(s, 1, Len(s) - 1)) + DigitVal(Ch(s, Len(s)))

\* the "%02d" / "%04d" renderings used by datetime.isoformat
RECURSIVE ZeroPad(_, _)
ZeroPad(s, width) == IF Len(s) >= width THEN s ELSE ZeroPad("0" \o s, width)

RECURSIVE StripTrailingZeros(_)
StripTrailingZeros(s) ==
    IF s # "" /\ Ch(s, Len(s)) = "0"
    THEN StripTrailingZeros(Slice(s, 1, Len(s) - 1))
    ELSE s

-----------------------------------------------------------------------------
(* Python values                                                            *)

PyNone == [t |-> "none"]

PyBool(b) == [t |-> "bool", b |-> b]

PyInt(i) == [t |-> "int", i |-> i]

\* a float of value (-1)^neg * (ip + 0.fd); fd carries no trailing zero
PyFloat(neg, ip, fd) == [t |-> "float", neg |-> neg, ip |-> ip, fd |-> fd]

PyStr(s) == [t |-> "str", s |-> s]

PyList(items) == [t |-> "list", items |-> items]

PyDict(items) == [t |-> "dict", items |-> items]

IsStr(v) == v.t = "str"

IsList(v) == v.t = "list"

IsDict(v) == v.t = "dict"

\* bool(v): the truth value tested by `if v`, `not v`, `a or b`
Truthy(v) ==
    CASE v.t = "none" -> FALSE
      [] v.t = "bool" -> v.b
      [] v.t = "int" -> v.i # 0
      [] v.t = "float" -> ~(v.ip = 0 /\ v.fd = "")
      [] v.t = "str" -> v.s # ""
      [] v.t = "list" -> v.items # <<>>
      [] v.t = "dict" -> v.items # <<>>

\* a or b
Or(a, b) == IF Truthy(a) THEN a ELSE b

\* dict.get(key, default) on the items of a dict (keys are unique)
GetItem(items, key, default) ==
    IF \E i \in 1..Len(items) : items[i][1] = key
    THEN items[CHOOSE i \in 1..Len(items) : items[i][1] = key][2]
    ELSE default

Get(d, key) == GetItem(d.items, key, PyNone)

HasKey(d, key) == \E i \in 1..Len(d.items) : d.items[i][1] = key

\* list(d.keys())
Keys(d) == [i \in 1..Len(d.items) |-> d.items[i][1]]

\* d[key] = v : replaces in place, or appends a new item
SetItem(d, key, v) ==
    IF HasKey(d, key)
    THEN PyDict([i \in 1..Len(d.items) |->
                    IF d.items[i][1] = key THEN <<key, v>> ELSE d.items[i]])
    ELSE PyDict(Append(d.items, <<key, v>>))

\* {**a, **b}: the items of a, with the values of b where b has the key,
\* then the items of b under new keys
Merge(a, b) ==
    PyDict([i \in 1..Len(a.items) |->
               <<a.items[i][1], GetItem(b.items, a.items[i][1], a.items[i][2])>>]
           \o SelectSeq(b.items, LAMBDA it : ~HasKey(a, it[1])))

\* repr() of a float: shortest decimal text, always with a fractional part
\* (values in the decimal range 1e-4 <= |x| < 1e16 that the model draws)
FloatText(v) ==
    (IF v.neg THEN "-" ELSE "") \o NatText(v.ip) \o "."
        \o (IF v.fd = "" THEN "0" ELSE v.fd)

IntText(i) == IF i < 0 THEN "-" \o NatText(0 - i) ELSE NatText(i)

\* repr() of a str: single quotes, double quotes when it holds a ' and no "
RECURSIVE EscapeRepr(_, _)
EscapeRepr(s, q) ==
    IF s = "" THEN ""
    ELSE LET c == Ch(s, 1)
             e == CASE c = "\\" -> "\\\\"
                    [] c = "\n" -> "\\n"
                    [] c = "\t" -> "\\t"
                    [] c = "\r" -> "\\r"
                    [] c = q -> "\\" \o q
                    [] OTHER -> c
         IN  e \o EscapeRepr(From(s, 2), q)

StrRepr(s) ==
    IF Contains(s, "'") /\ ~Contains(s, "\"")
    THEN "\"" \o EscapeRepr(s, "\"") \o "\""
    ELSE "'" \o EscapeRepr(s, "'") \o "'"

RECURSIVE repr(_)
RECURSIVE ReprItems(_)
RECURSIVE ReprPairs(_)
repr(v) ==
    CASE v.t = "none" -> "None"
      [] v.t = "bool" -> (IF v.b THEN "True" ELSE "False")
      [] v.t = "int" -> IntText(v.i)
      [] v.t = "float" -> FloatText(v)
      [] v.t = "str" -> StrRepr(v.s)
      [] v.t = "list" -> "[" \o ReprItems(v.items) \o "]"
      [] v.t = "dict" -> "{" \o ReprPairs(v.items) \o "}"

ReprItems(items) ==
    IF items = <<>> THEN ""
    ELSE repr(Head(items))
         \o (IF Len(items) > 1 THEN ", " \o ReprItems(Tail(items)) ELSE "")

ReprPairs(items) ==
    IF items = <<>> THEN ""
    ELSE StrRepr(Head(items)[1]) \o ": " \o repr(Head(items)[2])
         \o (IF Len(items) > 1 THEN ", " \o ReprPairs(Tail(items)) ELSE "")

\* str(v), also the rendering of {v} in an f-string
str(v) == IF v.t = "str" THEN v.s ELSE repr(v)

\* json.dumps(v, ensure_ascii=False) with the default separators
RECURSIVE EscapeJson(_)
EscapeJson(s) ==
    IF s = "" THEN ""
    ELSE LET c == Ch(s, 1)
             e == CASE c = "\\" -> "\\\\"
                    [] c = "\"" -> "\\\""
                    [] c = "\n" -> "\\n"
                    [] c = "\t" -> "\\t"
                    [] c = "\r" -> "\\r"
                    [] OTHER -> c
         IN  e \o EscapeJson(From(s, 2))

RECURSIVE json_dumps(_)
RECURSIVE DumpItems(_)
RECURSIVE DumpPairs(_)
json_dumps(v) ==
    CASE v.t = "none" -> "null"
      [] v.t = "bool" -> (IF v.b THEN "true" ELSE "false")
      [] v.t = "int" -> IntText(v.i)
      [] v.t = "float" -> FloatText(v)
      [] v.t = "str" -> "\"" \o EscapeJson(v.s) \o "\""
      [] v.t = "list" -> "[" \o DumpItems(v.items) \o "]"
      [] v.t = "dict" -> "{" \o DumpPairs(v.items) \o "}"

DumpItems(items) ==
    IF items = <<>> THEN ""
    ELSE json_dumps(Head(items))
         \o (IF Len(items) > 1 THEN ", " \o DumpItems(Tail(items)) ELSE "")

DumpPairs(items) ==
    IF items = <<>> THEN ""
    ELSE "\"" \o EscapeJson(Head(items)[1]) \o "\": " \o json_dumps(Head(items)[2])
         \o (IF Len(items) > 1 THEN ", " \o DumpPairs(Tail(items)) ELSE "")

-----------------------------------------------------------------------------
(* Field normalizers                                                        *)

\* float(s) for the decimal texts [sign] digits [. digits] and [sign] . digits;
\* every other text of the model's alphabet raises ValueError (ok = FALSE)
FloatOfParts(negative, ipart, fpart) ==
    IF AllDigits(ipart) /\ AllDigits(fpart) /\ (ipart # "" \/ fpart # "")
    THEN [ok |-> TRUE,
          val |-> PyFloat(negative, NatOfDigits(ipart), StripTrailingZeros(fpart))]
    ELSE [ok |-> FALSE, val |-> PyNone]

FloatOfBody(negative, body) ==
    IF Contains(body, ".")
    THEN LET dot == CHOOSE i \in 1..Len(body) :
                        Ch(body, i) = "." /\ \A j \in 1..(i - 1) : Ch(body, j) # "."
         IN  FloatOfParts(negative, Slice(body, 1, dot - 1), From(body, dot + 1))
    ELSE FloatOfParts(negative, body, "")

FloatOfText(s) ==
    IF s # "" /\ Ch(s, 1) \in {"+", "-"}
    THEN FloatOfBody(Ch(s, 1) = "-", From(s, 2))
    ELSE FloatOfBody(FALSE, s)

ParseFloat(s0) == FloatOfText(strip(s0))

\* int(s) for the texts [sign] digits with surrounding whitespace
IntOfBody(negative, body) ==
    IF body # "" /\ AllDigits(body)
    THEN [ok |-> TRUE, val |-> IF negative THEN 0 - NatOfDigits(body) ELSE NatOfDigits(body)]
    ELSE [ok |-> FALSE, val |-> 0]

IntOfText(s) ==
    IF s # "" /\ Ch(s, 1) \in {"+", "-"}
    THEN IntOfBody(Ch(s, 1) = "-", From(s, 2))
    ELSE IntOfBody(FALSE, s)

ParseInt(s0) == IntOfText(strip(s0))

\* the value of a parse, None where it raised
ValueOrNone(r) == IF r.ok THEN r.val ELSE PyNone

to_float(v) == ValueOrNone(ParseFloat(strip(str(v))))

normalize_country_code(v) ==
    IF Truthy(v) THEN PyStr(upper(strip(str(v)))) ELSE PyNone

ensure_wgs84(datum) ==
    IF ~Truthy(datum) THEN PyStr("WGS84")
    ELSE IF upper(strip(str(datum))) \in {"WGS84", "EPSG:4326"}
         THEN PyStr("WGS84")
         ELSE PyStr(str(datum))

-----------------------------------------------------------------------------
(* datetime.strptime, as the regular expressions of CPython's _strptime     *)
(* match it: every directive is an ordered list of alternatives, the first  *)
(* alternative with which the rest of the format matches is taken, and the  *)
(* match must then end at the end of the string.                            *)

D(a, b) == {Ch(DigitChars, i + 1) : i \in a..b}

Alt1(s, pos, cs) ==
    IF pos <= Len(s) /\ Ch(s, pos) \in cs THEN <<Ch(s, pos)>> ELSE <<>>

Alt2(s, pos, cs1, cs2) ==
    IF pos + 1 <= Len(s) /\ Ch(s, pos) \in cs1 /\ Ch(s, pos + 1) \in cs2
    THEN <<Slice(s, pos, pos + 1)>>
    ELSE <<>>

\* \d{w}
DigitRun(s, pos, w) ==
    IF pos + w - 1 <= Len(s) /\ AllDigits(Slice(s, pos, pos + w - 1))
    THEN <<Slice(s, pos, pos + w - 1)>>
    ELSE <<>>

\* %z : [+-]\d\d:?[0-5]\d(:?[0-5]\d)?|Z   (offsets without fractional seconds)
OffsetAlts(s, pos) ==
    LET hh == pos + 2 <= Len(s) /\ Ch(s, pos) \in {"+", "-"}
                /\ AllDigits(Slice(s, pos + 1, pos + 2))
        mm == IF pos + 3 <= Len(s) /\ Ch(s, pos + 3) = ":" THEN pos + 4 ELSE pos + 3
        mmOk == hh /\ Alt2(s, mm, D(0, 5), D(0, 9)) # <<>>
        ss == IF mm + 2 <= Len(s) /\ Ch(s, mm + 2) = ":" THEN mm + 3 ELSE mm + 2
        ssOk == mmOk /\ Alt2(s, ss, D(0, 5), D(0, 9)) # <<>>
    IN  (IF ssOk THEN <<Slice(s, pos, ss + 1)>> ELSE <<>>)
        \o (IF mmOk THEN <<Slice(s, pos, mm + 1)>> ELSE <<>>)
        \o (IF pos <= Len(s) /\ Ch(s, pos) = "Z" THEN <<"Z">> ELSE <<>>)

Alternatives(dir, s, pos) ==
    CASE dir = "Y" -> DigitRun(s, pos, 4)
      [] dir = "m" -> Alt2(s, pos, D(1, 1), D(0, 2)) \o Alt2(s, pos, D(0, 0), D(1, 9))
                      \o Alt1(s, pos, D(1, 9))
      [] dir = "d" -> Alt2(s, pos, D(3, 3), D(0, 1)) \o Alt2(s, pos, D(1, 2), D(0, 9))
                      \o Alt2(s, pos, D(0, 0), D(1, 9)) \o Alt1(s, pos, D(1, 9))
                      \o Alt2(s, pos, {" "}, D(1, 9))
      [] dir = "H" -> Alt2(s, pos, D(2, 2), D(0, 3)) \o Alt2(s, pos, D(0, 1), D(0, 9))
                      \o Alt1(s, pos, D(0, 9))
      [] dir = "M" -> Alt2(s, pos, D(0, 5), D(0, 9)) \o Alt1(s, pos, D(0, 9))
      [] dir = "S" -> Alt2(s, pos, D(6, 6), D(0, 1)) \o Alt2(s, pos, D(0, 5), D(0, 9))
                      \o Alt1(s, pos, D(0, 9))
      [] dir = "f" -> DigitRun(s, pos, 6) \o DigitRun(s, pos, 5) \o DigitRun(s, pos, 4)
                      \o DigitRun(s, pos, 3) \o DigitRun(s, pos, 2) \o DigitRun(s, pos, 1)
      [] dir = "z" -> OffsetAlts(s, pos)

NoFound == [Y |-> "", m |-> "", d |-> "", H |-> "", M |-> "", S |-> "", f |-> "", z |-> ""]

NoMatch == [ok |-> FALSE, end |-> 0, found |-> NoFound]

\* the first of two attempts that succeeds
OrElse(r, other) == IF r.ok THEN r ELSE other

RECURSIVE MatchFrom(_, _, _, _, _)
RECURSIVE TryAlternatives(_, _, _, _, _, _, _)
MatchFrom(fmt, fi, s, pos, found) ==
    IF fi > Len(fmt) THEN [ok |-> TRUE, end |-> pos, found |-> found]
    ELSE IF Ch(fmt, fi) = "%"
         THEN TryAlternatives(Alternatives(Ch(fmt, fi + 1), s, pos), Ch(fmt, fi + 1),
                              fmt, fi + 2, s, pos, found)
         ELSE IF pos <= Len(s) /\ LowerCh(Ch(s, pos)) = LowerCh(Ch(fmt, fi))
              THEN MatchFrom(fmt, fi + 1, s, pos + 1, found)
              ELSE NoMatch

TryAlternatives(alts, dir, fmt, fi, s, pos, found) ==
    IF alts = <<>> THEN NoMatch
    ELSE OrElse(MatchFrom(fmt, fi, s, pos + Len(Head(alts)),
                          [found EXCEPT ![dir] = Head(alts)]),
                TryAlternatives(Tail(alts), dir, fmt, fi, s, pos, found))

\* the UTC offset in seconds that _strptime computes from the text matched by
\* %z, once its first colon is removed: z is [+-]HHMM, [+-]HHMMSS or [+-]HHMM:SS
OffsetOfDigits(z, colon) ==
    IF \/ colon /\ Len(z) > 5 /\ Ch(z, 6) # ":"
       \/ ~colon /\ Len(z) > 5 /\ ~AllDigits(Slice(z, 6, 7))
    THEN [ok |-> FALSE, off |-> 0]
    ELSE [ok |-> TRUE,
          off |-> (IF Ch(z, 1) = "-" THEN -1 ELSE 1)
                  * (3600 * NatOfDigits(Slice(z, 2, 3)) + 60 * NatOfDigits(Slice(z, 4, 5))
                     + NatOfDigits(IF colon THEN Slice(z, 7, 8) ELSE Slice(z, 6, 7)))]

OffsetOf(z) ==
    IF z = "Z" THEN [ok |-> TRUE, off |-> 0]
    ELSE IF Ch(z, 4) = ":" THEN OffsetOfDigits(Slice(z, 1, 3) \o From(z, 5), TRUE)
         ELSE OffsetOfDigits(z, FALSE)

IsLeap(y) == (y % 4 = 0 /\ y % 100 # 0) \/ y % 400 = 0

DaysInMonth(y, m) ==
    IF m = 2 THEN (IF IsLeap(y) THEN 29 ELSE 28)
    ELSE IF m \in {4, 6, 9, 11} THEN 30 ELSE 31

ValueError == [ok |-> FALSE]

\* the datetime of the matched fields, ValueError where they are out of range
MakeDatetime(year, month, day, hour, minute, second, microsecond, aware, tz) ==
    IF \/ year < 1
       \/ day > DaysInMonth(year, month)
       \/ second > 59
       \/ ~tz.ok
       \/ tz.off <= 0 - 86400 \/ tz.off >= 86400
    THEN ValueError
    ELSE [ok |-> TRUE, year |-> year, month |-> month, day |-> day,
          hour |-> hour, minute |-> minute, second |-> second,
          microsecond |-> microsecond, aware |-> aware, utcoffset |-> tz.off]

DatetimeOfMatch(r, len) ==
    IF ~r.ok \/ r.end # len + 1 THEN ValueError
    ELSE LET g == r.found
         IN  MakeDatetime(NatOfDigits(g.Y), NatOfDigits(g.m), NatOfDigits(strip(g.d)),
                          NatOfDigits(g.H), NatOfDigits(g.M), NatOfDigits(g.S),
                          IF g.f = "" THEN 0 ELSE NatOfDigits(Slice(g.f \o "000000", 1, 6)),
                          g.z # "",
                          IF g.z = "" THEN [ok |-> TRUE, off |-> 0] ELSE OffsetOf(g.z))

\* datetime.strptime(s, fmt): [ok |-> FALSE] stands for ValueError
strptime(s, fmt) == DatetimeOfMatch(MatchFrom(fmt, 1, s, 1, NoFound), Len(s))

\* the offset part of datetime.isoformat()
OffsetText(off) ==
    LET a == IF off < 0 THEN 0 - off ELSE off
    IN  (IF off < 0 THEN "-" ELSE "+")
        \o ZeroPad(NatText(a \div 3600), 2) \o ":" \o ZeroPad(NatText((a % 3600) \div 60), 2)
        \o (IF a % 60 # 0 THEN ":" \o ZeroPad(NatText(a % 60), 2) ELSE "")

\* dt.isoformat() of an aware datetime
isoformat(dt) ==
    ZeroPad(NatText(dt.year), 4) \o "-" \o ZeroPad(NatText(dt.month), 2) \o "-"
    \o ZeroPad(NatText(dt.day), 2) \o "T" \o ZeroPad(NatText(dt.hour), 2) \o ":"
    \o ZeroPad(NatText(dt.minute), 2) \o ":" \o ZeroPad(NatText(dt.second), 2)
    \o (IF dt.microsecond # 0 THEN "." \o ZeroPad(NatText(dt.microsecond), 6) ELSE "")
    \o OffsetText(dt.utcoffset)

DateFormats ==
    << "%Y-%m-%d", "%Y/%m/%d",
       "%Y-%m-%dT%H:%M:%S%z", "%Y-%m-%dT%H:%M:%S.%f%z",
       "%Y-%m-%dT%H:%M:%S", "%Y-%m-%dT%H:%M:%S.%f" >>

\* lines 150-153 when strptime returned dt, else the next attempt
IsoOrElse(dt, other) ==
    IF dt.ok
    THEN PyStr(replace(isoformat([dt EXCEPT !.utcoffset =
                                      IF dt.aware THEN dt.utcoffset ELSE 0]),
                       "+00:00", "Z"))
    ELSE other

\* the loop of lines 143-155 from format i on, then the fallback of lines 158-160
RECURSIVE TryFormats(_, _)
TryFormats(s, i) ==
    IF i > Len(DateFormats)
    THEN IF Len(s) = 10 /\ Ch(s, 5) = "-" /\ Ch(s, 8) = "-" THEN PyStr(s) ELSE PyNone
    ELSE IsoOrElse(strptime(s, DateFormats[i]), TryFormats(s, i + 1))

to_iso_date(v) == IF ~Truthy(v) THEN PyNone ELSE TryFormats(strip(str(v)), 1)

-----------------------------------------------------------------------------
(* Identity generator and record normalizer                                 *)

NAMESPACE_URL == "6ba7b811-9dad-11d1-80b4-00c04fd430c8"

\* str(uuid.uuid5(namespace, name)): the SHA-1 digest of namespace and name is
\* modelled by its preimage, i.e. as a hash without collisions
uuid5(namespace, name) == "uuid5:" \o namespace \o ":" \o name

\* a seed that also reads a field outside the five
Seed_with_recordedBy(rec) ==
    str(GetItem(rec.items, "scientificName", PyStr(""))) \o "|"
    \o str(GetItem(rec.items, "eventDate", PyStr(""))) \o "|"
    \o str(GetItem(rec.items, "decimalLatitude", PyStr(""))) \o "|"
    \o str(GetItem(rec.items, "decimalLongitude", PyStr(""))) \o "|"
    \o str(GetItem(rec.items, "datasetName", PyStr("plantnet"))) \o "|"
    \o str(GetItem(rec.items, "recordedBy", PyStr("")))

Seed(rec) ==
    str(GetItem(rec.items, "scientificName", PyStr(""))) \o "|"
    \o str(GetItem(rec.items, "eventDate", PyStr(""))) \o "|"
    \o str(GetItem(rec.items, "decimalLatitude", PyStr(""))) \o "|"
    \o str(GetItem(rec.items, "decimalLongitude", PyStr(""))) \o "|"
    \o str(GetItem(rec.items, "datasetName", PyStr("plantnet")))

\* an identity generator that looks at `id` before `occurrenceID`
build_occurrence_id_id_first(rec) ==
    LET existing == Or(Get(rec, "id"), Get(rec, "occurrenceID"))
    IN  IF Truthy(existing) THEN PyStr(str(existing))
        ELSE PyStr(uuid5(NAMESPACE_URL, Seed(rec)))

build_occurrence_id(rec) ==
    LET existing == Or(Get(rec, "occurrenceID"), Get(rec, "id"))
    IN  IF Truthy(existing) THEN PyStr(str(existing))
        ELSE PyStr(uuid5(NAMESPACE_URL, Seed(rec)))

Copy(rec, key) == <<key, Get(rec, key)>>

\* lines 306-312: year, month, day, set together or not at all
DerivedYMD(iso) ==
    IF Truthy(iso) /\ Len(iso.s) >= 10
    THEN LET y == ParseInt(Slice(iso.s, 1, 4))
             m == ParseInt(Slice(iso.s, 6, 7))
             d == ParseInt(Slice(iso.s, 9, 10))
         IN  IF y.ok /\ m.ok /\ d.ok
             THEN << <<"year", PyInt(y.val)>>, <<"month", PyInt(m.val)>>,
                     <<"day", PyInt(d.val)>> >>
             ELSE <<>>
    ELSE <<>>

\* lines 283-337: `out` before the identifier is added, iso being the value
\* of line 304
CoreFields(rec, bor_map, iso) ==
    LET bor_src == lower(strip(str(Or(Get(rec, "basisOfRecord"), PyStr("")))))
    IN  PyDict(
          << <<"scientificName", Or(Or(Get(rec, "scientificName"),
                                       Get(rec, "acceptedScientificName")),
                                    Get(rec, "name"))>>,
             Copy(rec, "scientificNameAuthorship"),
             Copy(rec, "taxonRank"),
             Copy(rec, "kingdom"), Copy(rec, "phylum"), Copy(rec, "class"),
             Copy(rec, "order"), Copy(rec, "family"), Copy(rec, "genus"),
             Copy(rec, "specificEpithet"), Copy(rec, "infraspecificEpithet"),
             <<"basisOfRecord", GetItem(bor_map.items, bor_src, PyStr("HUMAN_OBSERVATION"))>>,
             <<"recordedBy", Or(Get(rec, "recordedBy"), Get(rec, "observer"))>>,
             Copy(rec, "recordNumber"),
             <<"occurrenceStatus",
               PyStr(lower(str(Or(Get(rec, "occurrenceStatus"), PyStr("present")))))>>,
             Copy(rec, "individualCount"),
             Copy(rec, "sex"),
             Copy(rec, "lifeStage"),
             <<"eventDate", iso>> >>
          \o DerivedYMD(iso) \o
          << <<"decimalLatitude", to_float(Or(Get(rec, "decimalLatitude"), Get(rec, "lat")))>>,
             <<"decimalLongitude", to_float(Or(Get(rec, "decimalLongitude"), Get(rec, "lon")))>>,
             <<"coordinateUncertaintyInMeters",
               to_float(Or(Get(rec, "coordinateUncertaintyInMeters"), Get(rec, "uncertainty")))>>,
             <<"geodeticDatum", ensure_wgs84(Get(rec, "geodeticDatum"))>>,
             <<"locality", Or(Get(rec, "locality"), Get(rec, "place"))>>,
             Copy(rec, "municipality"),
             Copy(rec, "county"),
             Copy(rec, "stateProvince"),
             Copy(rec, "country"),
             <<"countryCode", normalize_country_code(Get(rec, "countryCode"))>>,
             Copy(rec, "institutionCode"),
             Copy(rec, "collectionCode"),
             Copy(rec, "catalogNumber"),
             <<"datasetName", Or(Get(rec, "datasetName"), PyStr("Pl@ntNet Occurrences"))>>,
             Copy(rec, "datasetID"),
             <<"license", Or(Get(rec, "license"), Get(rec, "rights"))>>,
             <<"references", Or(Get(rec, "references"), Get(rec, "reference"))>>,
             Copy(rec, "identifiedBy"),
             <<"dateIdentified", to_iso_date(Get(rec, "dateIdentified"))>> >>)

\* line 298: .lower() exists on str only; on any other truthy value the
\* attribute lookup raises AttributeError, which nothing catches
StatusRaises(rec) == ~IsStr(Or(Get(rec, "occurrenceStatus"), PyStr("present")))

\* line 340
WithOccurrenceID(rec, out) ==
    SetItem(out, "occurrenceID", build_occurrence_id(Merge(rec, out)))

\* the record returned, for a rec on which line 298 does not raise
normalize_record_gbif(rec, bor_map) ==
    WithOccurrenceID(rec,
        CoreFields(rec, bor_map,
                   to_iso_date(Or(Or(Get(rec, "eventDate"), Get(rec, "date")),
                                  Get(rec, "observationDate")))))

DEFAULT_BASIS_OF_RECORD_MAP ==
    PyDict(<< <<"human_observation", PyStr("HUMAN_OBSERVATION")>>,
              <<"observation", PyStr("OBSERVATION")>>,
              <<"machine_observation", PyStr("MACHINE_OBSERVATION")>>,
              <<"preserved_specimen", PyStr("PRESERVED_SPECIMEN")>>,
              <<"living_specimen", PyStr("LIVING_SPECIMEN")>>,
              <<"material_sample", PyStr("MATERIAL_SAMPLE")>>,
              <<"photograph", PyStr("HUMAN_OBSERVATION")>>,
              <<"photo", PyStr("HUMAN_OBSERVATION")>>,
              <<"image", PyStr("MACHINE_OBSERVATION")>> >>)

-----------------------------------------------------------------------------
(* Payload extraction                                                       *)

ContainerKeys == <<"occurrences", "records", "results", "data", "items">>

\* a search that passes over a container key holding an empty list
RECURSIVE FindFrom_skipping_empty(_, _)
FindFrom_skipping_empty(payload, i) ==
    IF i > Len(ContainerKeys)
    THEN (IF Truthy(payload) THEN PyList(<<payload>>) ELSE PyList(<<>>))
    ELSE IF IsList(Get(payload, ContainerKeys[i])) /\ Truthy(Get(payload, ContainerKeys[i]))
         THEN Get(payload, ContainerKeys[i])
         ELSE FindFrom_skipping_empty(payload, i + 1)

\* the loop of lines 367-370 from key i on, then line 371
RECURSIVE FindFrom(_, _)
FindFrom(payload, i) ==
    IF i > Len(ContainerKeys)
    THEN (IF Truthy(payload) THEN PyList(<<payload>>) ELSE PyList(<<>>))
    ELSE IF IsList(Get(payload, ContainerKeys[i]))
         THEN Get(payload, ContainerKeys[i])
         ELSE FindFrom(payload, i + 1)

find_occurrence_list(payload) ==
    IF IsList(payload) THEN payload
    ELSE IF IsDict(payload) THEN FindFrom(payload, 1)
         ELSE PyList(<<>>)

-----------------------------------------------------------------------------
(* CSV export                                                               *)

DEFAULT_DWC_CORE_FIELDS ==
    << "occurrenceID", "basisOfRecord", "institutionCode", "collectionCode",
       "catalogNumber", "recordNumber", "recordedBy",
       "eventDate", "year", "month", "day",
       "country", "countryCode", "stateProvince", "county", "municipality",
       "locality", "decimalLatitude", "decimalLongitude", "coordinateUncertaintyInMeters",
       "geodeticDatum",
       "occurrenceStatus", "individualCount", "sex", "lifeStage",
       "identifiedBy", "dateIdentified",
       "scientificName", "scientificNameAuthorship", "taxonRank",
       "kingdom", "phylum", "class", "order", "family", "genus",
       "specificEpithet", "infraspecificEpithet",
       "datasetID", "datasetName", "license", "references" \o
       "datasetID", "datasetName", "license", "references",
       "associatedMedia" >>

Range(seq) == {seq[i] : i \in 1..Len(seq)}

\* the keys of the mapping entries, in input order and record order
RECURSIVE RawKeys(_)
RawKeys(rs) ==
    IF rs = <<>> THEN <<>>
    ELSE (IF IsDict(Head(rs)) THEN Keys(Head(rs)) ELSE <<>>) \o RawKeys(Tail(rs))

\* lines 415-417 over a run of keys
RECURSIVE FirstSeen(_, _)
FirstSeen(keys, seen) ==
    IF keys = <<>> THEN <<>>
    ELSE IF Head(keys) \in seen THEN FirstSeen(Tail(keys), seen)
         ELSE <<Head(keys)>> \o FirstSeen(Tail(keys), seen \cup {Head(keys)})

\* a detection that compares keys with the schema without regard to case
DetectExtraKeys_ignoring_case(rs, fields) ==
    SelectSeq(FirstSeen(RawKeys(rs), Range(fields)),
              LAMBDA key : \A f \in Range(fields) : lower(f) # lower(key))

\* lines 410-417
DetectExtraKeys(rs, fields) == FirstSeen(RawKeys(rs), Range(fields))

\* an extra value handed to the writer as the native structure it is
Serialized_native(v) == v

\* lines 430-431
Serialized(v) == IF IsList(v) \/ IsDict(v) THEN PyStr(json_dumps(v)) ELSE v

\* lines 428-431: the extra items of raw under the keys ks
ExtraItems(raw, ks) == [i \in 1..Len(ks) |-> <<ks[i], Serialized(Get(raw, ks[i]))>>]

\* a row in which the extras replace what the normalizer produced
MergedRow_overwriting(core, raw, extras) ==
    IF IsDict(raw) THEN Merge(core, PyDict(ExtraItems(raw, extras))) ELSE core

\* lines 426-433: setdefault adds only the keys the row does not have yet
MergedRow(core, raw, extras) ==
    IF IsDict(raw)
    THEN PyDict(core.items
                \o ExtraItems(raw, SelectSeq(extras, LAMBDA e : ~HasKey(core, e))))
    ELSE core

\* the text the csv writer makes of a value: None is empty, a str is itself,
\* anything else is str(value)
CsvCell(v) == IF v.t = "none" THEN "" ELSE str(v)

\* QUOTE_MINIMAL: a field holding the delimiter, the quote character or a line
\* break is quoted, with its quote characters doubled
CsvField(s) ==
    IF Contains(s, ",") \/ Contains(s, "\"") \/ Contains(s, "\n") \/ Contains(s, "\r")
    THEN "\"" \o replace(s, "\"", "\"\"") \o "\""
    ELSE s

\* a record of one empty field is written as ""
CsvRecord(cells) ==
    IF cells = <<"">> THEN <<"\"\"">>
    ELSE [i \in 1..Len(cells) |-> CsvField(cells[i])]

\* DictWriter.writerow with extrasaction="ignore" and restval ""
DictRow(row, fieldnames) ==
    CsvRecord([i \in 1..Len(fieldnames) |->
                  CsvCell(GetItem(row.items, fieldnames[i], PyStr("")))])

Min(a, b) == IF a < b THEN a ELSE b

\* the output path before the file is opened
NoFile == [exists |-> FALSE, lines |-> <<>>]

\* a function called on its own: no file is read, no pipeline runs
NoFs == [none |-> TRUE]

NoRun == [none |-> TRUE]

-----------------------------------------------------------------------------
(* The list comprehension of line 407, one entry of `records` at a time     *)

\* a comprehension that keeps an empty record for an entry that is no mapping
NormalizeNext_keeping_non_mappings ==
    /\ pc = "normalize"
    /\ n < Len(records)
    /\ LET r == records[n + 1]
       IN  IF ~IsDict(r)
           THEN /\ pc' = "normalize"
                /\ core_rows' = Append(core_rows, PyDict(<<>>))
           ELSE IF StatusRaises(r)
                THEN /\ pc' = "raised"
                     /\ core_rows' = core_rows
                ELSE /\ pc' = "normalize"
                     /\ core_rows' = Append(core_rows,
                                            normalize_record_gbif(r, basis_of_record_map))
    /\ n' = n + 1
    /\ UNCHANGED <<value, result, records, dwc_fields, basis_of_record_map,
                   extra_keys, csv_file, k, fs, run>>

NormalizeNext ==
    /\ pc = "normalize"
    /\ n < Len(records)
    /\ LET r == records[n + 1]
       IN  IF ~IsDict(r)
           THEN /\ pc' = "normalize"
                /\ core_rows' = core_rows
           ELSE IF StatusRaises(r)
                THEN /\ pc' = "raised"
                     /\ core_rows' = core_rows
                ELSE /\ pc' = "normalize"
                     /\ core_rows' = Append(core_rows,
                                            normalize_record_gbif(r, basis_of_record_map))
    /\ n' = n + 1
    /\ UNCHANGED <<value, result, records, dwc_fields, basis_of_record_map,
                   extra_keys, csv_file, k, fs, run>>

NormalizeDone ==
    /\ pc = "normalize"
    /\ n = Len(records)
    /\ pc' = "extras"
    /\ UNCHANGED <<value, result, records, dwc_fields, basis_of_record_map, n,
                   core_rows, extra_keys, csv_file, k, fs, run>>

-----------------------------------------------------------------------------
(* The rest of export_dwc_gbif_csv                                          *)

\* lines 410-417
DetectExtras ==
    /\ pc = "extras"
    /\ extra_keys' = DetectExtraKeys(records, dwc_fields)
    /\ pc' = "open"
    /\ UNCHANGED <<value, result, records, dwc_fields, basis_of_record_map, n,
                   core_rows, csv_file, k, fs, run>>

\* line 420: mode "w" creates the file or truncates it
OpenCsv ==
    /\ pc = "open"
    /\ csv_file' = [exists |-> TRUE, lines |-> <<>>]
    /\ pc' = "header"
    /\ UNCHANGED <<value, result, records, dwc_fields, basis_of_record_map, n,
                   core_rows, extra_keys, k, fs, run>>

\* lines 421-422: the header is the row that maps every fieldname to itself
WriteHeader ==
    /\ pc = "header"
    /\ csv_file' = [csv_file EXCEPT !.lines =
                        Append(@, [kind |-> "header",
                                   fields |-> CsvRecord(dwc_fields \o extra_keys)])]
    /\ k' = 0
    /\ pc' = "rows"
    /\ UNCHANGED <<value, result, records, dwc_fields, basis_of_record_map, n,
                   core_rows, extra_keys, fs, run>>

\* lines 425-434, one pair of zip(core_rows, records) at a time
WriteRow ==
    /\ pc = "rows"
    /\ k < Min(Len(core_rows), Len(records))
    /\ csv_file' = [csv_file EXCEPT !.lines =
                        Append(@, [kind |-> "row",
                                   fields |-> DictRow(MergedRow(core_rows[k + 1],
                                                                records[k + 1], extra_keys),
                                                      dwc_fields \o extra_keys)])]
    /\ k' = k + 1
    /\ UNCHANGED <<pc, value, result, records, dwc_fields, basis_of_record_map, n,
                   core_rows, extra_keys, fs, run>>

\* the end of the `with` block: the file is closed and the function returns
CloseCsv ==
    /\ pc = "rows"
    /\ k = Min(Len(core_rows), Len(records))
    /\ pc' = "done"
    /\ UNCHANGED <<value, result, records, dwc_fields, basis_of_record_map, n,
                   core_rows, extra_keys, csv_file, k, fs, run>>

\* find_occurrence_list called on a decoded payload
CallFindOccurrenceList ==
    /\ pc = "find_occurrence_list"
    /\ result' = find_occurrence_list(value)
    /\ pc' = "found"
    /\ UNCHANGED <<value, records, dwc_fields, basis_of_record_map, n, core_rows,
                   extra_keys, csv_file, k, fs, run>>

-----------------------------------------------------------------------------
(* Inputs                                                                   *)

\* every dict that takes, in the order of opts, each key with one of its
\* values or leaves it out
RECURSIVE ItemsOver(_)
ItemsOver(opts) ==
    IF opts = <<>> THEN {<<>>}
    ELSE LET rest == ItemsOver(Tail(opts))
         IN  rest \cup { << <<Head(opts)[1], v>> >> \o r : v \in Head(opts)[2], r \in rest }

DictsOver(opts) == { PyDict(items) : items \in ItemsOver(opts) }

\* records that carry an identifier of their own
IdRecords ==
    DictsOver(<< <<"occurrenceID", {PyStr("occ-7"), PyStr(""), PyInt(123), PyInt(0)}>>,
                 <<"id", {PyStr("p9"), PyFloat(FALSE, 7, "")}>>,
                 <<"scientificName", {PyStr("Rosa")}>>,
                 <<"occurrenceStatus", {PyStr("Present"), PyInt(5)}>> >>)

\* records without identifier, which differ in the raw fields the seed of the
\* generated identifier is drawn from and in one field (recordedBy) it is not
SeedRecords ==
    DictsOver(<< <<"scientificName", {PyStr("Rosa"), PyStr("None")}>>,
                 <<"name", {PyStr("Rosa")}>>,
                 <<"eventDate", {PyStr("2024-03-15")}>>,
                 <<"lat", {PyFloat(TRUE, 20, "9")}>>,
                 <<"datasetName", {PyStr("x")}>>,
                 <<"recordedBy", {PyStr("Ann")}>> >>)

\* records whose values have a type the normalizer does not expect under the
\* keys it converts
TypedRecords ==
    DictsOver(<< <<"occurrenceStatus", {PyStr("ABSENT"), PyStr(""), PyBool(TRUE),
                                        PyList(<<PyStr("x")>>)}>>,
                 <<"basisOfRecord", {PyStr(" Photo "), PyList(<<>>), PyInt(3)}>>,
                 <<"eventDate", {PyList(<<PyInt(2024)>>), PyBool(TRUE)}>>,
                 <<"countryCode", {PyInt(33), PyStr(" fr ")}>>,
                 <<"geodeticDatum", {PyInt(4326), PyStr("epsg:4326")}>> >>)

\* records with coordinates under the primary keys, the fallback keys or both
CoordRecords ==
    DictsOver(<< <<"decimalLatitude", {PyInt(0), PyFloat(FALSE, 0, ""), PyFloat(TRUE, 20, "9"),
                                       PyStr(""), PyNone, PyStr("12.5"), PyStr("abc")}>>,
                 <<"lat", {PyFloat(FALSE, 45, "5")}>>,
                 <<"decimalLongitude", {PyInt(0), PyInt(55)}>>,
                 <<"lon", {PyStr("7")}>>,
                 <<"coordinateUncertaintyInMeters", {PyInt(0), PyInt(30)}>>,
                 <<"uncertainty", {PyInt(5)}>> >>)

DateParts ==
    {"2024-03-15", "2024-02-29", "2023-02-29", "2024-3-5", "2024/03/15",
     "0000-01-01", "abcd-ef-gh"}

TimeParts == {"", "T10:00:00", "t1:2:3", "T10:00:00.5", "T23:59:60"}

OffsetParts ==
    {"", "Z", "+02:00", "+0200", "-00:00", "-05:30", "+00:00:30", "+25:00", "+02:0030"}

Pads == {"", " "}

DateValues ==
    { PyStr(p \o d \o t \o o \o p) :
        p \in Pads, d \in DateParts, t \in TimeParts, o \in OffsetParts }
    \cup {PyNone, PyStr(""), PyInt(20240315), PyInt(0), PyBool(TRUE)}

-----------------------------------------------------------------------------
(* to_iso_date called on a value, then normalize_record_gbif on a record    *)
(* whose eventDate is that value                                            *)

CallToIsoDate ==
    /\ pc = "to_iso_date"
    /\ result' = to_iso_date(value)
    /\ pc' = "normalize"
    /\ UNCHANGED <<value, records, dwc_fields, basis_of_record_map, n, core_rows,
                   extra_keys, csv_file, k, fs, run>>

InitDate ==
    /\ value \in DateValues
    /\ records = << PyDict(<< <<"eventDate", value>> >>) >>
    /\ pc = "to_iso_date"
    /\ result = PyNone
    /\ dwc_fields = <<>>
    /\ basis_of_record_map = DEFAULT_BASIS_OF_RECORD_MAP
    /\ n = 0
    /\ core_rows = <<>>
    /\ extra_keys = <<>>
    /\ csv_file = NoFile
    /\ k = 0
    /\ fs = NoFs
    /\ run = NoRun

NextDate == CallToIsoDate \/ NormalizeNext \/ NormalizeDone

SpecDate == InitDate /\ [][NextDate]_vars

-----------------------------------------------------------------------------
(* normalize_record_gbif on one record, or on two records side by side      *)

InitNormalize ==
    /\ records \in { <<r>> : r \in IdRecords \cup TypedRecords \cup CoordRecords }
                   \cup { <<r1, r2>> : r1 \in SeedRecords, r2 \in SeedRecords }
    /\ pc = "normalize"
    /\ value = PyNone
    /\ result = PyNone
    /\ dwc_fields = <<>>
    /\ basis_of_record_map = DEFAULT_BASIS_OF_RECORD_MAP
    /\ n = 0
    /\ core_rows = <<>>
    /\ extra_keys = <<>>
    /\ csv_file = NoFile
    /\ k = 0
    /\ fs = NoFs
    /\ run = NoRun

NextNormalize == NormalizeNext \/ NormalizeDone

SpecNormalize == InitNormalize /\ [][NextNormalize]_vars

-----------------------------------------------------------------------------
(* export_dwc_gbif_csv on a list of at most MaxRecords entries              *)

MaxRecords == 2

\* entries of the input list: mappings with extra keys of every kind of value,
\* a mapping whose occurrenceStatus has no .lower(), an empty mapping, and
\* entries that are no mapping
ExportEntries ==
    { PyDict(<< <<"scientificName", PyStr("Rosa")>>, <<"eventDate", PyStr("2024/03/15")>>,
                <<"media", PyDict(<< <<"url", PyStr("a,b")>>, <<"n", PyList(<<PyInt(1)>>)>> >>)>> >>),
      PyDict(<< <<"name", PyStr("Iris")>>, <<"tags", PyList(<<PyStr("x"), PyStr("y")>>)>>,
                <<"ScientificName", PyStr("iris")>>, <<"score", PyFloat(FALSE, 0, "5")>> >>),
      PyDict(<< <<"occurrenceID", PyInt(123)>>, <<"note", PyNone>>,
                <<"references", PyStr("")>>, <<"reference", PyStr("ref")>>,
                <<"associatedMedia", PyStr("img.jpg")>> >>),
      PyDict(<< <<"occurrenceStatus", PyInt(5)>> >>),
      PyDict(<<>>),
      PyStr("junk"),
      PyInt(7) }

\* the configured FieldSchema: the default, one that leaves out fields the
\* normalizer produces, one with a raw key and a repeated column
Schemas ==
    { DEFAULT_DWC_CORE_FIELDS,
      <<"occurrenceID", "scientificName">>,
      <<"occurrenceID", "eventDate", "media", "occurrenceID">> }

InitExport ==
    /\ records \in UNION { [1..m -> ExportEntries] : m \in 0..MaxRecords }
    /\ dwc_fields \in Schemas
    /\ basis_of_record_map = DEFAULT_BASIS_OF_RECORD_MAP
    /\ pc = "normalize"
    /\ value = PyNone
    /\ result = PyNone
    /\ n = 0
    /\ core_rows = <<>>
    /\ extra_keys = <<>>
    /\ csv_file = NoFile
    /\ k = 0
    /\ fs = NoFs
    /\ run = NoRun

NextExport ==
    \/ NormalizeNext
    \/ NormalizeDone
    \/ DetectExtras
    \/ OpenCsv
    \/ WriteHeader
    \/ WriteRow
    \/ CloseCsv

SpecExport == InitExport /\ [][NextExport]_vars

-----------------------------------------------------------------------------
(* find_occurrence_list on a decoded payload                                *)

\* what a container key may hold: a list that names the key, an empty list,
\* a value that is no list
Held(key) == {PyList(<<PyStr(key)>>), PyList(<<>>), PyStr("x")}

Payloads ==
    DictsOver(<< <<"occurrences", Held("occurrences")>>, <<"records", Held("records")>>,
                 <<"results", Held("results")>>, <<"data", Held("data")>>,
                 <<"items", Held("items")>> >>)
    \cup DictsOver(<< <<"total", {PyInt(3)}>>, <<"items", Held("items")>>,
                      <<"data", Held("data")>>, <<"occurrences", Held("occurrences")>> >>)
    \cup { PyList(<<>>), PyList(<<PyInt(1), PyDict(<<>>)>>), PyNone, PyStr("occurrences"),
           PyInt(0), PyInt(7), PyBool(TRUE) }

InitFind ==
    /\ value \in Payloads
    /\ pc = "find_occurrence_list"
    /\ result = PyNone
    /\ records = <<>>
    /\ dwc_fields = <<>>
    /\ basis_of_record_map = DEFAULT_BASIS_OF_RECORD_MAP
    /\ n = 0
    /\ core_rows = <<>>
    /\ extra_keys = <<>>
    /\ csv_file = NoFile
    /\ k = 0
    /\ fs = NoFs
    /\ run = NoRun

NextFind == CallFindOccurrenceList

SpecFind == InitFind /\ [][NextFind]_vars

-----------------------------------------------------------------------------
(* dwc_normalise_to_csv: the raw JSON file, the two configuration files,    *)
(* the parent directory of the output and the output file                   *)

\* a file the pipeline reads: absent, present but not readable, readable but
\* no JSON text, or the JSON text of `data`
File(state, data) == [state |-> state, data |-> data]

Missing == File("missing", PyNone)

Unreadable == File("unreadable", PyNone)

Invalid == File("invalid", PyNone)

Json(data) == File("json", data)

\* a list of column names as json.load returns it, and back
ListOfNames(names) == PyList([i \in 1..Len(names) |-> PyStr(names[i])])

Names(list) == [i \in 1..Len(list.items) |-> list.items[i].s]

\* lines 102-117: open and json.load raise on a file that is absent, not
\* readable or no JSON, and every exception ends in `return default`
load_json_config(file, default) ==
    IF /\ file.state = "json"
       /\ \/ IsList(default) /\ IsList(file.data)
          \/ IsDict(default) /\ IsDict(file.data)
    THEN file.data
    ELSE default

\* lines 471-472
CheckRawJsonExists ==
    /\ pc = "dwc_normalise_to_csv"
    /\ pc' = IF fs.raw_json.state = "missing" THEN "raised" ELSE "read"
    /\ UNCHANGED <<value, result, records, dwc_fields, basis_of_record_map, n,
                   core_rows, extra_keys, csv_file, k, fs, run>>

\* lines 475-476: open raises on a file that cannot be read, json.load on a
\* text that is no JSON
ReadRawJson ==
    /\ pc = "read"
    /\ IF fs.raw_json.state = "json"
       THEN /\ value' = fs.raw_json.data
            /\ pc' = "find_occurrence_list"
       ELSE /\ value' = value
            /\ pc' = "raised"
    /\ UNCHANGED <<result, records, dwc_fields, basis_of_record_map, n,
                   core_rows, extra_keys, csv_file, k, fs, run>>

\* a pipeline that goes on to the configuration whatever the extractor found
CheckOccurrences_going_on ==
    /\ pc = "found"
    /\ pc' = "config"
    /\ UNCHANGED <<value, result, records, dwc_fields, basis_of_record_map, n,
                   core_rows, extra_keys, csv_file, k, fs, run>>

\* lines 480-482: `occs` is `result`
CheckOccurrences ==
    /\ pc = "found"
    /\ pc' = IF Truthy(result) THEN "config" ELSE "returned"
    /\ UNCHANGED <<value, result, records, dwc_fields, basis_of_record_map, n,
                   core_rows, extra_keys, csv_file, k, fs, run>>

\* lines 485-486
LoadDwcCoreFields ==
    /\ pc = "config"
    /\ run.config_dir
    /\ dwc_fields' = Names(load_json_config(fs.dwc_core_fields_json,
                                            ListOfNames(DEFAULT_DWC_CORE_FIELDS)))
    /\ run' = [run EXCEPT !.opened = Append(@, "dwc_core_fields.json")]
    /\ pc' = "config_map"
    /\ UNCHANGED <<value, result, records, basis_of_record_map, n,
                   core_rows, extra_keys, csv_file, k, fs>>

\* a loading in which a fallback of the first file carries over to the second
LoadBasisOfRecordMap_falling_back_together ==
    /\ pc = "config_map"
    /\ basis_of_record_map' =
          IF dwc_fields = DEFAULT_DWC_CORE_FIELDS
          THEN DEFAULT_BASIS_OF_RECORD_MAP
          ELSE load_json_config(fs.basis_of_record_map_json, DEFAULT_BASIS_OF_RECORD_MAP)
    /\ run' = [run EXCEPT !.opened = Append(@, "basis_of_record_map.json")]
    /\ pc' = "mkdir"
    /\ UNCHANGED <<value, result, records, dwc_fields, n,
                   core_rows, extra_keys, csv_file, k, fs>>

\* line 487
LoadBasisOfRecordMap ==
    /\ pc = "config_map"
    /\ basis_of_record_map' = load_json_config(fs.basis_of_record_map_json,
                                               DEFAULT_BASIS_OF_RECORD_MAP)
    /\ run' = [run EXCEPT !.opened = Append(@, "basis_of_record_map.json")]
    /\ pc' = "mkdir"
    /\ UNCHANGED <<value, result, records, dwc_fields, n,
                   core_rows, extra_keys, csv_file, k, fs>>

\* lines 488-489
UseDefaultConfig ==
    /\ pc = "config"
    /\ ~run.config_dir
    /\ dwc_fields' = DEFAULT_DWC_CORE_FIELDS
    /\ basis_of_record_map' = DEFAULT_BASIS_OF_RECORD_MAP
    /\ pc' = "mkdir"
    /\ UNCHANGED <<value, result, records, n,
                   core_rows, extra_keys, csv_file, k, fs, run>>

\* line 492
MakeParentDir ==
    /\ pc = "mkdir"
    /\ fs' = [fs EXCEPT !.out_dir = TRUE]
    /\ pc' = "export"
    /\ UNCHANGED <<value, result, records, dwc_fields, basis_of_record_map, n,
                   core_rows, extra_keys, csv_file, k, run>>

\* an export that opens its output before it normalizes the records
CallExport_opening_first ==
    /\ pc = "export"
    /\ records' = result.items
    /\ n' = 0
    /\ core_rows' = <<>>
    /\ extra_keys' = <<>>
    /\ csv_file' = [exists |-> TRUE, lines |-> <<>>]
    /\ pc' = "normalize"
    /\ UNCHANGED <<value, result, dwc_fields, basis_of_record_map, k, fs, run>>

\* line 493: export_dwc_gbif_csv(occs, out_csv_path, dwc_fields, bor_map)
CallExport ==
    /\ pc = "export"
    /\ records' = result.items
    /\ n' = 0
    /\ core_rows' = <<>>
    /\ extra_keys' = <<>>
    /\ pc' = "normalize"
    /\ UNCHANGED <<value, result, dwc_fields, basis_of_record_map,
                   csv_file, k, fs, run>>

\* lines 495-498, after export_dwc_gbif_csv returned
ReturnCsvPath ==
    /\ pc = "done"
    /\ pc' = "returned"
    /\ UNCHANGED <<value, result, records, dwc_fields, basis_of_record_map, n,
                   core_rows, extra_keys, csv_file, k, fs, run>>

-----------------------------------------------------------------------------
(* Runs of dwc_normalise_to_csv                                             *)

Rosa ==
    PyDict(<< <<"scientificName", PyStr("Rosa")>>, <<"note", PyStr("n")>>,
              <<"media", PyDict(<< <<"url", PyStr("u")>> >>)>> >>)

Iris ==
    PyDict(<< <<"name", PyStr("Iris")>>, <<"associatedMedia", PyStr("img.jpg")>>,
              <<"references", PyStr("r")>>, <<"datasetID", PyStr("d")>> >>)

BadStatus == PyDict(<< <<"occurrenceStatus", PyInt(5)>> >>)

\* decoded contents of the raw JSON file: payloads without occurrence, lists
\* without mapping, lists and containers of records, a single record, and
\* lists with a record whose normalization raises
RawPayloads ==
    { PyList(<<>>), PyDict(<<>>), PyInt(7), PyStr("x"), PyNone,
      PyDict(<< <<"total", PyInt(0)>>, <<"results", PyList(<<>>)>> >>),
      PyDict(<< <<"records", PyStr("x")>>, <<"data", PyList(<<>>)>>,
                <<"items", PyList(<<Rosa>>)>> >>),
      PyList(<<PyInt(1), PyStr("a")>>),
      PyList(<<Rosa>>),
      PyDict(<< <<"results", PyList(<<Rosa, Iris>>)>> >>),
      Iris,
      PyList(<<PyInt(7), Rosa>>),
      PyList(<<BadStatus>>),
      PyList(<<Rosa, BadStatus>>) }

RawFiles == {Missing, Unreadable, Invalid} \cup { Json(p) : p \in RawPayloads }

\* config/dwc_core_fields.json: a list of names, or a mapping or a number
FieldsFiles ==
    { Missing, Unreadable, Invalid,
      Json(ListOfNames(<<"occurrenceID", "scientificName", "eventDate">>)),
      Json(PyDict(<< <<"fields", PyList(<<>>)>> >>)),
      Json(PyInt(3)) }

\* config/basis_of_record_map.json: a mapping, or a list
MapFiles ==
    { Missing, Unreadable, Invalid,
      Json(PyDict(<< <<"", PyStr("OBSERVATION")>> >>)),
      Json(PyList(<<PyStr("photo")>>)) }

\* a file a former run left at the output path
OldCsv == [exists |-> TRUE, lines |-> << [kind |-> "old", fields |-> <<"old">>] >>]

InitPipeline ==
    /\ \E cd \in BOOLEAN :
         /\ fs \in [raw_json : RawFiles,
                    dwc_core_fields_json : IF cd THEN FieldsFiles ELSE {Missing},
                    basis_of_record_map_json : IF cd THEN MapFiles ELSE {Missing},
                    out_dir : BOOLEAN]
         /\ csv_file \in {NoFile, OldCsv}
         /\ csv_file.exists => fs.out_dir
         /\ run = [config_dir |-> cd, opened |-> <<>>,
                   csv_before |-> csv_file, out_dir_before |-> fs.out_dir]
    /\ pc = "dwc_normalise_to_csv"
    /\ value = PyNone
    /\ result = PyNone
    /\ records = <<>>
    /\ dwc_fields = <<>>
    /\ basis_of_record_map = PyDict(<<>>)
    /\ n = 0
    /\ core_rows = <<>>
    /\ extra_keys = <<>>
    /\ k = 0

NextPipeline ==
    \/ CheckRawJsonExists
    \/ ReadRawJson
    \/ CallFindOccurrenceList
    \/ CheckOccurrences
    \/ LoadDwcCoreFields
    \/ LoadBasisOfRecordMap
    \/ UseDefaultConfig
    \/ MakeParentDir
    \/ CallExport
    \/ NormalizeNext
    \/ NormalizeDone
    \/ DetectExtras
    \/ OpenCsv
    \/ WriteHeader
    \/ WriteRow
    \/ CloseCsv
    \/ ReturnCsvPath

SpecPipeline == InitPipeline /\ [][NextPipeline]_vars

-----------------------------------------------------------------------------
(* app_backend.main and fetch_plantnet: the fetch of the raw JSON, then the *)
(* normalization.  `run` holds the --bbox of the command line, what the     *)
(* server answers to the request, whether the raw file can be written, the  *)
(* keyword arguments of the call of fetch_plantnet in progress and the      *)
(* functions entered so far.                                                *)

\* the parameters of fetch_plantnet (fetch_plantnet.py, lines 36-43) and those
\* of them that have no default value
FetchParameters ==
    {"api_key", "species", "polygon_geojson", "output_json_path", "base_url", "timeout"}

FetchRequired == {"api_key", "species", "polygon_geojson", "output_json_path"}

\* app_backend.py, lines 81-114: the polygon is built from --bbox (float()
\* raises ValueError on a bound that is no number), then fetch_plantnet is
\* called with six keyword arguments
MainCallFetch ==
    /\ pc = "main"
    /\ IF run.bbox = "invalid"
       THEN /\ pc' = "raised"
            /\ run' = run
       ELSE /\ pc' = "call_fetch_plantnet"
            /\ run' = [run EXCEPT !.keywords =
                          {"api_key", "species", "polygon_geojson", "min_event_date",
                           "max_event_date", "output_json_path"}]
    /\ UNCHANGED <<value, result, records, dwc_fields, basis_of_record_map, n,
                   core_rows, extra_keys, csv_file, k, fs>>

\* fetch_plantnet.py run as a script, lines 125-148
ScriptCallFetch ==
    /\ pc = "fetch_plantnet.py"
    /\ pc' = "call_fetch_plantnet"
    /\ run' = [run EXCEPT !.keywords =
                  {"api_key", "species", "polygon_geojson", "output_json_path"}]
    /\ UNCHANGED <<value, result, records, dwc_fields, basis_of_record_map, n,
                   core_rows, extra_keys, csv_file, k, fs>>

\* the binding of the keyword arguments to the parameters of lines 36-43: a
\* keyword that names no parameter, or a parameter without default left out,
\* raises TypeError before the body is entered; line 94 opens the body
EnterFetch ==
    /\ pc = "call_fetch_plantnet"
    /\ IF run.keywords \subseteq FetchParameters /\ FetchRequired \subseteq run.keywords
       THEN /\ pc' = "post"
            /\ run' = [run EXCEPT !.calls = Append(@, "fetch_plantnet")]
            /\ fs' = [fs EXCEPT !.out_dir = TRUE]
       ELSE /\ pc' = "raised"
            /\ run' = run
            /\ fs' = fs
    /\ UNCHANGED <<value, result, records, dwc_fields, basis_of_record_map, n,
                   core_rows, extra_keys, csv_file, k>>

\* lines 109-111: requests.post raises on a network error, raise_for_status
\* on a 4xx/5xx answer
FetchPost ==
    /\ pc = "post"
    /\ pc' = IF run.server \in {"network_error", "http_error"} THEN "raised" ELSE "json"
    /\ UNCHANGED <<value, result, records, dwc_fields, basis_of_record_map, n,
                   core_rows, extra_keys, csv_file, k, fs, run>>

\* line 114: resp.json() raises on a body that is no JSON
FetchDecode ==
    /\ pc = "json"
    /\ IF run.server = "ok_json"
       THEN /\ value' = run.body
            /\ pc' = "write"
       ELSE /\ value' = value
            /\ pc' = "raised"
    /\ UNCHANGED <<result, records, dwc_fields, basis_of_record_map, n,
                   core_rows, extra_keys, csv_file, k, fs, run>>

\* lines 117-118: open raises OSError when the file cannot be written
FetchWrite ==
    /\ pc = "write"
    /\ IF run.writable
       THEN /\ fs' = [fs EXCEPT !.raw_json = Json(value)]
            /\ pc' = "return"
       ELSE /\ fs' = fs
            /\ pc' = "raised"
    /\ UNCHANGED <<value, result, records, dwc_fields, basis_of_record_map, n,
                   core_rows, extra_keys, csv_file, k, run>>

\* line 121, and back in the caller: main goes on to lines 116-120, the
\* script ends
FetchReturn ==
    /\ pc = "return"
    /\ IF run.entry = "app_backend.py"
       THEN /\ pc' = "dwc_normalise_to_csv"
            /\ run' = [run EXCEPT !.calls = Append(@, "dwc_normalise_to_csv")]
       ELSE /\ pc' = "done"
            /\ run' = run
    /\ UNCHANGED <<value, result, records, dwc_fields, basis_of_record_map, n,
                   core_rows, extra_keys, csv_file, k, fs>>

InitBackend ==
    /\ \E entry \in {"app_backend.py", "fetch_plantnet.py"} :
       \E bbox \in IF entry = "app_backend.py" THEN {"none", "valid", "invalid"} ELSE {"none"} :
       \E server \in {"ok_json", "ok_not_json", "http_error", "network_error"} :
       \E body \in {PyDict(<< <<"results", PyList(<<Rosa, Iris>>)>> >>), PyList(<<>>)} :
       \E writable \in BOOLEAN :
         /\ run = [entry |-> entry, bbox |-> bbox, server |-> server, body |-> body,
                   writable |-> writable, keywords |-> {}, calls |-> <<>>]
         /\ pc = IF entry = "app_backend.py" THEN "main" ELSE "fetch_plantnet.py"
    /\ fs \in [raw_json : {Missing, Json(PyList(<<>>))}, out_dir : BOOLEAN]
    /\ value = PyNone
    /\ result = PyNone
    /\ records = <<>>
    /\ dwc_fields = <<>>
    /\ basis_of_record_map = PyDict(<<>>)
    /\ n = 0
    /\ core_rows = <<>>
    /\ extra_keys = <<>>
    /\ csv_file = NoFile
    /\ k = 0

NextBackend ==
    \/ MainCallFetch
    \/ ScriptCallFetch
    \/ EnterFetch
    \/ FetchPost
    \/ FetchDecode
    \/ FetchWrite
    \/ FetchReturn

SpecBackend == InitBackend /\ [][NextBackend]_vars

-----------------------------------------------------------------------------
(* Identity of the normalized record (SpecNormalize: every entry of records *)
(* is a mapping, so core_rows[i] is the normalized records[i])              *)

\* C1 (as stated): whenever the raw occurrenceID is non-empty the normalized
\* occurrenceID is exactly that raw value, string or number; otherwise, when
\* the raw id is non-empty, it is exactly the raw id.
C1_ExactRawValue ==
    \A i \in 1..Len(core_rows) :
        LET oid == Get(records[i], "occurrenceID")
            id == Get(records[i], "id")
            out == Get(core_rows[i], "occurrenceID")
        IN  /\ Truthy(oid) => out = oid
            /\ ~Truthy(oid) /\ Truthy(id) => out = id

\* C1 (amended): whenever the raw occurrenceID is truthy (a non-empty string or
\* a non-zero number) the normalized occurrenceID is the text of that raw
\* value: the string itself, or the decimal text of the number (123 gives
\* "123", 7.0 gives "7.0"); otherwise, when the raw id is truthy, it is the
\* text of the raw id. The normalized occurrenceID is always a string.
C1_TextOfRawValue ==
    \A i \in 1..Len(core_rows) :
        LET oid == Get(records[i], "occurrenceID")
            id == Get(records[i], "id")
            out == Get(core_rows[i], "occurrenceID")
            chosen == IF Truthy(oid) THEN oid ELSE id
        IN  /\ IsStr(out)
            /\ Truthy(chosen) =>
                 CASE chosen.t = "str" -> out = chosen
                   [] chosen.t = "int" -> out = PyStr(IntText(chosen.i))
                   [] chosen.t = "float" -> out = PyStr(FloatText(chosen))

\* a record with the number 123 as occurrenceID and an id of its own has been
\* normalized, and its occurrenceID is the text "123"
C1_Witness ==
    /\ Len(core_rows) = 1
    /\ Get(records[1], "occurrenceID") = PyInt(123)
    /\ Get(records[1], "id") = PyStr("p9")
    /\ Get(core_rows[1], "occurrenceID") = PyStr("123")

\* C2: records without a (truthy) occurrenceID and id get a non-null
\* identifier, and two such records whose normalized scientificName, eventDate,
\* decimalLatitude, decimalLongitude and datasetName are equal get the same
\* identifier, whatever their other fields and whatever raw keys the five were
\* drawn from; in particular the same record normalized twice gets it twice.
C2_IdentifierDependsOnFive ==
    \A i \in 1..Len(core_rows) : \A j \in 1..Len(core_rows) :
        LET Lacks(rec) == ~Truthy(Get(rec, "occurrenceID")) /\ ~Truthy(Get(rec, "id"))
            Five(row) == <<Get(row, "scientificName"), Get(row, "eventDate"),
                           Get(row, "decimalLatitude"), Get(row, "decimalLongitude"),
                           Get(row, "datasetName")>>
            out == Get(core_rows[i], "occurrenceID")
        IN  Lacks(records[i]) /\ Lacks(records[j])
            => /\ IsStr(out) /\ out.s # ""
               /\ Five(core_rows[i]) = Five(core_rows[j])
                  => out = Get(core_rows[j], "occurrenceID")

\* two records without identifier that differ in their raw fields (the name
\* under another key, another recordedBy) but agree on the normalized five
\* have been normalized and carry one generated identifier
C2_Witness ==
    /\ Len(core_rows) = 2
    /\ ~HasKey(records[1], "occurrenceID") /\ ~HasKey(records[1], "id")
    /\ Get(records[1], "scientificName") = PyStr("Rosa")
    /\ ~HasKey(records[1], "recordedBy")
    /\ ~HasKey(records[2], "scientificName")
    /\ Get(records[2], "name") = PyStr("Rosa")
    /\ Get(records[2], "recordedBy") = PyStr("Ann")
    /\ Get(core_rows[1], "decimalLatitude") = PyFloat(TRUE, 20, "9")
    /\ Get(core_rows[2], "decimalLatitude") = PyFloat(TRUE, 20, "9")
    /\ Get(core_rows[1], "occurrenceID") = Get(core_rows[2], "occurrenceID")
    /\ Len(Get(core_rows[1], "occurrenceID").s) > 0

\* C3: two records without occurrenceID and id whose normalized five differ in
\* at least one attribute, an absent attribute (None) counting as different
\* from every present value, get different seeds and so different identifiers.
C3_DifferentFiveDifferentIdentifier ==
    \A i \in 1..Len(core_rows) : \A j \in 1..Len(core_rows) :
        LET Lacks(rec) == ~HasKey(rec, "occurrenceID") /\ ~HasKey(rec, "id")
            Five(row) == <<Get(row, "scientificName"), Get(row, "eventDate"),
                           Get(row, "decimalLatitude"), Get(row, "decimalLongitude"),
                           Get(row, "datasetName")>>
        IN  /\ Lacks(records[i]) /\ Lacks(records[j])
            /\ Five(core_rows[i]) # Five(core_rows[j])
            => Get(core_rows[i], "occurrenceID") # Get(core_rows[j], "occurrenceID")

-----------------------------------------------------------------------------
(* The date normalizer (SpecDate)                                           *)

\* C6: for every valid calendar date written YYYY-MM-DD, to_iso_date returns
\* that same 10-character string, and normalize_record_gbif derives year,
\* month and day as the integers of its three parts.
C6_DateOnlyRoundTrip ==
    LET IsCalendarDate(s) ==
            /\ Len(s) = 10 /\ Ch(s, 5) = "-" /\ Ch(s, 8) = "-"
            /\ AllDigits(Slice(s, 1, 4)) /\ AllDigits(Slice(s, 6, 7))
            /\ AllDigits(Slice(s, 9, 10))
            /\ NatOfDigits(Slice(s, 1, 4)) >= 1
            /\ NatOfDigits(Slice(s, 6, 7)) \in 1..12
            /\ NatOfDigits(Slice(s, 9, 10)) \in
                 1..DaysInMonth(NatOfDigits(Slice(s, 1, 4)), NatOfDigits(Slice(s, 6, 7)))
    IN  IsStr(value) /\ IsCalendarDate(value.s)
        => /\ pc # "to_iso_date" => result = value
           /\ Len(core_rows) = 1 =>
                /\ Get(core_rows[1], "eventDate") = value
                /\ Get(core_rows[1], "year") = PyInt(NatOfDigits(Slice(value.s, 1, 4)))
                /\ Get(core_rows[1], "month") = PyInt(NatOfDigits(Slice(value.s, 6, 7)))
                /\ Get(core_rows[1], "day") = PyInt(NatOfDigits(Slice(value.s, 9, 10)))

\* C7: a datetime string without offset comes back as the same date and time
\* followed by "Z"; one with an explicit offset comes back with that offset,
\* which is written "Z" only when it is zero; neither the time of day nor the
\* offset is lost to a pattern tried earlier. (Texts are paired with their
\* ISO-8601 rendering.)
C7_OffsetKept ==
    LET Dates == { <<"2024-03-15", "2024-03-15">>, <<"2024-02-29", "2024-02-29">>,
                   <<"2024-3-5", "2024-03-05">> }
        Times == { <<"T10:00:00", "T10:00:00">>, <<"t1:2:3", "T01:02:03">>,
                   <<"T10:00:00.5", "T10:00:00.500000">> }
        Offsets == { <<"", "Z">>, <<"Z", "Z">>, <<"-00:00", "Z">>,
                     <<"+02:00", "+02:00">>, <<"+0200", "+02:00">>,
                     <<"-05:30", "-05:30">>, <<"+00:00:30", "+00:00:30">> }
    IN  \A d \in Dates : \A tm \in Times : \A o \in Offsets : \A p \in Pads :
            value = PyStr(p \o d[1] \o tm[1] \o o[1] \o p) /\ pc # "to_iso_date"
            => result = PyStr(d[2] \o tm[2] \o o[2])

-----------------------------------------------------------------------------
(* Payload extraction (SpecFind)                                            *)

\* C8: find_occurrence_list returns (1) the payload itself when it is a list;
\* (2) for a mapping, the value of the first key, in the order occurrences,
\* records, results, data, items, whose value is a list, keys that are absent
\* or hold something else being passed over; (3) a one-element list holding
\* the mapping when it is non-empty and no such key holds a list; (4) an empty
\* list for the empty mapping and for a value of any other type.
C8_ExtractionPrecedence ==
    pc = "found" =>
        LET Holds(i) == IsList(Get(value, ContainerKeys[i]))
        IN  IF IsList(value) THEN result = value
            ELSE IF IsDict(value)
                 THEN IF \E i \in 1..Len(ContainerKeys) : Holds(i)
                      THEN \E i \in 1..Len(ContainerKeys) :
                               /\ Holds(i)
                               /\ \A j \in 1..(i - 1) : ~Holds(j)
                               /\ result = Get(value, ContainerKeys[i])
                      ELSE IF value.items # <<>> THEN result = PyList(<<value>>)
                           ELSE result = PyList(<<>>)
                 ELSE result = PyList(<<>>)

\* a mapping whose first container key holds a non-list and whose second holds
\* an empty list, listed after a later key, has been searched: the empty list
\* of `data` is returned although `items` holds a non-empty list
C8_Witness ==
    /\ pc = "found"
    /\ value = PyDict(<< <<"total", PyInt(3)>>, <<"items", PyList(<<PyStr("items")>>)>>,
                         <<"data", PyList(<<>>)>>, <<"occurrences", PyStr("x")>> >>)
    /\ result = PyList(<<>>)

-----------------------------------------------------------------------------
(* The rows and the header of the CSV file (SpecExport)                     *)

\* C4: in every row written, each column whose name is a key of the normalized
\* record holds the normalized value, whatever the raw record holds under the
\* same name; the extras fill only columns the normalized record has no key for.
C4_NoOverwrite ==
    \A i \in 2..Len(csv_file.lines) : \A j \in 1..Len(dwc_fields \o extra_keys) :
        LET core == core_rows[i - 1]
            name == (dwc_fields \o extra_keys)[j]
        IN  /\ csv_file.lines[i].kind = "row"
            /\ HasKey(core, name)
               => csv_file.lines[i].fields[j] = CsvField(CsvCell(Get(core, name)))

\* a row has been written for a record whose raw eventDate, "2024/03/15", is
\* an extra key of a schema without eventDate: the column holds the normalized
\* date
C4_Witness ==
    /\ Len(csv_file.lines) = 2
    /\ dwc_fields = <<"occurrenceID", "scientificName">>
    /\ Get(records[1], "eventDate") = PyStr("2024/03/15")
    /\ extra_keys = <<"eventDate", "media">>
    /\ csv_file.lines[2].fields[3] = "2024-03-15T00:00:00Z"

\* C5 (as stated): for a list of mapping records only, every key k of a record
\* r that is not in the schema has r[k] in column k of the row of r: the text
\* of a scalar, the JSON text of a list or mapping.
C5_EveryExtraPreserved ==
    pc = "done" /\ (\A i \in 1..Len(records) : IsDict(records[i])) =>
        \A i \in 1..Len(records) : \A j \in 1..Len(dwc_fields \o extra_keys) :
            LET name == (dwc_fields \o extra_keys)[j]
                v == Get(records[i], name)
            IN  HasKey(records[i], name) /\ name \notin Range(dwc_fields)
                => csv_file.lines[i + 1].fields[j] =
                     CsvField(IF IsList(v) \/ IsDict(v) THEN json_dumps(v) ELSE CsvCell(v))

\* C5 (amended): for a list of mapping records only, every key k of a record r
\* that is not in the schema and is not a key of the normalized record has
\* r[k] in column k of the row of r: the text of a scalar, the JSON text of a
\* list or mapping. (Under a key the normalizer produces, the column holds the
\* normalized value.)
C5_ExtraPreservedUnlessNormalized ==
    pc = "done" /\ (\A i \in 1..Len(records) : IsDict(records[i])) =>
        /\ Len(csv_file.lines) = Len(records) + 1
        /\ \A i \in 1..Len(records) : \A j \in 1..Len(dwc_fields \o extra_keys) :
            LET name == (dwc_fields \o extra_keys)[j]
                v == Get(records[i], name)
            IN  /\ HasKey(records[i], name)
                /\ name \notin Range(dwc_fields)
                /\ ~HasKey(core_rows[i], name)
                => csv_file.lines[i + 1].fields[j] =
                     CsvField(IF IsList(v) \/ IsDict(v) THEN json_dumps(v) ELSE CsvCell(v))

\* two mapping records have been exported under the default schema: the row of
\* the first holds the JSON text of its `media` mapping, quoted for CSV, and the
\* row of the second its `score` number and the JSON text of its `tags` list
C5_Witness ==
    /\ pc = "done"
    /\ dwc_fields = DEFAULT_DWC_CORE_FIELDS
    /\ Len(records) = 2
    /\ extra_keys = <<"media", "name", "tags", "ScientificName", "score">>
    /\ csv_file.lines[2].fields[Len(dwc_fields) + 1]
         = "\"{\"\"url\"\": \"\"a,b\"\", \"\"n\"\": [1]}\""
    /\ csv_file.lines[3].fields[Len(dwc_fields) + 3] = "\"[\"\"x\"\", \"\"y\"\"]\""
    /\ csv_file.lines[3].fields[Len(dwc_fields) + 5] = "0.5"

\* C9: when the export returns, the file holds one data row per mapping entry
\* of the input list, the i-th row carrying under the schema's columns the
\* normalized values of the i-th mapping entry; an entry that is no mapping
\* gives no row, and the export is only ever cut short by a mapping entry
\* (one whose occurrenceStatus the normalizer cannot lower), never by an
\* entry that is no mapping.
C9_OneRowPerMapping ==
    LET mappings == SelectSeq(records, IsDict)
    IN  /\ pc = "done" =>
            /\ Len(csv_file.lines) = Len(mappings) + 1
            /\ \A i \in 1..Len(mappings) : \A j \in 1..Len(dwc_fields) :
                   /\ csv_file.lines[i + 1].kind = "row"
                   /\ csv_file.lines[i + 1].fields[j] =
                        CsvField(CsvCell(GetItem(
                            normalize_record_gbif(mappings[i], basis_of_record_map).items,
                            dwc_fields[j], PyStr(""))))
        /\ pc = "raised" => IsDict(records[n]) /\ StatusRaises(records[n])
        /\ pc \in {"extras", "open", "header", "rows", "done"}
           => \A i \in 1..Len(records) : IsDict(records[i]) => ~StatusRaises(records[i])

\* a list whose first entry is no mapping and whose second is one has been
\* exported: the file holds the header and one row, that of the mapping
C9_Witness ==
    /\ pc = "done"
    /\ records = <<PyStr("junk"),
                   PyDict(<< <<"occurrenceID", PyInt(123)>>, <<"note", PyNone>>,
                             <<"references", PyStr("")>>, <<"reference", PyStr("ref")>>,
                             <<"associatedMedia", PyStr("img.jpg")>> >>)>>
    /\ dwc_fields = <<"occurrenceID", "scientificName">>
    /\ Len(csv_file.lines) = 2
    /\ csv_file.lines[2].fields[1] = "123"

\* C10: the header is the schema in its order followed by the extra keys; the
\* extra keys are exactly the keys of the mapping entries that are no member,
\* letter for letter, of the schema, each once, in the order in which a scan of
\* the entries in input order and of their keys in record order first meets
\* them; the header is the first line of the file and the only header.
C10_ColumnOrder ==
    LET Raw(i) == IF IsDict(records[i]) THEN Range(Keys(records[i])) ELSE {}
        First(key) == CHOOSE i \in 1..Len(records) :
                          key \in Raw(i) /\ \A h \in 1..(i - 1) : key \notin Raw(h)
        At(key) == CHOOSE j \in 1..Len(records[First(key)].items) :
                       records[First(key)].items[j][1] = key
    IN  /\ pc \in {"open", "header", "rows", "done"} =>
            /\ Range(extra_keys) = (UNION {Raw(i) : i \in 1..Len(records)}) \ Range(dwc_fields)
            /\ \A a \in 1..Len(extra_keys) : \A b \in 1..Len(extra_keys) :
                   a < b => /\ extra_keys[a] # extra_keys[b]
                            /\ \/ First(extra_keys[a]) < First(extra_keys[b])
                               \/ /\ First(extra_keys[a]) = First(extra_keys[b])
                                  /\ At(extra_keys[a]) < At(extra_keys[b])
        /\ pc \in {"rows", "done"} =>
            /\ Len(csv_file.lines) >= 1
            /\ csv_file.lines[1] = [kind |-> "header", fields |-> dwc_fields \o extra_keys]
            /\ \A i \in 2..Len(csv_file.lines) : csv_file.lines[i].kind = "row"
        /\ pc \in {"normalize", "extras", "open", "raised"} => csv_file = NoFile
        /\ pc = "header" => csv_file = [exists |-> TRUE, lines |-> <<>>]

\* two mapping entries have been exported under a two-column schema: the key
\* ScientificName, which differs from a column in case only, is an extra, and
\* the extras stand after the schema in first-seen order
C10_Witness ==
    /\ pc = "done"
    /\ dwc_fields = <<"occurrenceID", "scientificName">>
    /\ Len(records) = 2
    /\ csv_file.lines[1].fields = <<"occurrenceID", "scientificName", "name", "tags",
                              "ScientificName", "score", "eventDate", "media">>
    /\ Len(csv_file.lines) = 3

-----------------------------------------------------------------------------
(* Runs of dwc_normalise_to_csv (SpecPipeline)                              *)

\* C11: whenever the payload extractor returns an empty sequence for the
\* decoded raw JSON, the run only reads the raw file, extracts and returns:
\* it never raises, loads no configuration file, and leaves the output file
\* and its parent directory as they were before the run.
C11_EmptyInputWritesNothing ==
    (fs.raw_json.state = "json" /\ ~Truthy(find_occurrence_list(fs.raw_json.data))) =>
        /\ pc \in {"dwc_normalise_to_csv", "read", "find_occurrence_list", "found",
                   "returned"}
        /\ run.opened = <<>>
        /\ dwc_fields = <<>>
        /\ csv_file = run.csv_before
        /\ fs.out_dir = run.out_dir_before

\* a run returned on a mapping whose first list-valued container key holds an
\* empty list (a later key holds a record), with a configuration directory
\* given, both configuration files in place and a former output on disk
C11_Witness ==
    /\ pc = "returned"
    /\ IsDict(value)
    /\ Truthy(Get(value, "items"))
    /\ result = PyList(<<>>)
    /\ run.config_dir
    /\ fs.dwc_core_fields_json.state = "json"
    /\ fs.basis_of_record_map_json.state = "json"
    /\ csv_file = OldCsv

\* C12: a run of dwc_normalise_to_csv that returned and wrote the output file
\* left at least one data row in it, and a run whose extracted list holds no
\* mapping-typed entry left the output path as it was (no header-only file).
C12_NoHeaderOnlyFile ==
    pc = "returned" =>
        /\ csv_file # run.csv_before =>
             \E i \in 1..Len(csv_file.lines) : csv_file.lines[i].kind = "row"
        /\ (\A i \in 1..Len(result.items) : ~IsDict(result.items[i])) =>
             csv_file = run.csv_before

\* C13: in every run of dwc_normalise_to_csv the output file differs from what
\* it was before the run only once the raw file was found and parsed, the
\* extracted list holds at least one entry and every mapping entry of it was
\* normalized; a run that raised (raw file missing, unreadable or no JSON, or
\* a record whose normalization raises) left the output path as it was, and
\* a run on such an input never returns.
C13_OutputUntouchedOnFailure ==
    /\ csv_file # run.csv_before =>
         /\ pc \in {"header", "rows", "done", "returned"}
         /\ fs.raw_json.state = "json"
         /\ value = fs.raw_json.data
         /\ result = find_occurrence_list(value)
         /\ Truthy(result)
         /\ records = result.items
         /\ n = Len(records)
         /\ \A i \in 1..Len(records) : IsDict(records[i]) => ~StatusRaises(records[i])
         /\ Len(core_rows) = Cardinality({i \in 1..Len(records) : IsDict(records[i])})
    /\ pc = "raised" => csv_file = run.csv_before
    /\ fs.raw_json.state # "json" => pc \in {"dwc_normalise_to_csv", "read", "raised"}
    /\ (/\ fs.raw_json.state = "json"
        /\ \E i \in 1..Len(find_occurrence_list(fs.raw_json.data).items) :
              LET r == find_occurrence_list(fs.raw_json.data).items[i]
              IN  IsDict(r) /\ StatusRaises(r))
       => pc # "returned" /\ csv_file = run.csv_before

\* the normalization of the second record raised after the first was
\* normalized, and the former output file is still in place
C13_Witness ==
    /\ pc = "raised"
    /\ Len(records) = 2
    /\ Len(core_rows) = 1
    /\ n = 2
    /\ StatusRaises(records[2])
    /\ fs.out_dir
    /\ csv_file = OldCsv

-----------------------------------------------------------------------------
(* Robustness of the normalizer (SpecNormalize)                             *)

\* C14: normalize_record_gbif returns a record for every mapping, whatever
\* the type of the values under its keys: the normalization of a list of
\* mappings never raises, every mapping gone through has its normalized
\* record, and that record holds the fields the normalizer produces.
C14_NormalizationNeverAborts ==
    /\ pc # "raised"
    /\ Len(core_rows) = n
    /\ \A i \in 1..Len(core_rows) :
          \A key \in {"scientificName", "basisOfRecord", "occurrenceStatus", "eventDate",
                      "countryCode", "geodeticDatum", "occurrenceID"} :
             HasKey(core_rows[i], key)

\* C17: a numeric decimalLatitude, decimalLongitude or
\* coordinateUncertaintyInMeters of the raw record, 0 included, is the value of
\* the normalized field, and the fallback key (lat, lon, uncertainty) gives the
\* value only when the primary key is absent, null or the empty string.
C17_CoordinatePrecedence ==
    \A i \in 1..Len(core_rows) :
        \A keys \in { <<"decimalLatitude", "lat">>, <<"decimalLongitude", "lon">>,
                      <<"coordinateUncertaintyInMeters", "uncertainty">> } :
            LET primary == Get(records[i], keys[1])
                empty == primary.t = "none" \/ (primary.t = "str" /\ primary.s = "")
                out == Get(core_rows[i], keys[1])
            IN  /\ primary.t \in {"int", "float"} => out = to_float(primary)
                /\ out = to_float(IF empty THEN Get(records[i], keys[2]) ELSE primary)

\* C15: with a configuration directory given, once both configuration files
\* have been loaded the schema is the list of dwc_core_fields.json when that
\* file holds a JSON list and the built-in default otherwise, and the
\* vocabulary map is the mapping of basis_of_record_map.json when that file
\* holds a JSON mapping and the built-in default otherwise, each whatever the
\* state of the other file; both files are tried, in that order; the run goes
\* on to the export, and raises only where a run without configuration
\* directory raises too (raw file, or the normalization of a record).
C15_IndependentConfigFallback ==
    run.config_dir =>
        /\ Len(run.opened) >= 1 =>
             dwc_fields =
                IF fs.dwc_core_fields_json.state = "json"
                   /\ IsList(fs.dwc_core_fields_json.data)
                THEN [i \in 1..Len(fs.dwc_core_fields_json.data.items) |->
                         fs.dwc_core_fields_json.data.items[i].s]
                ELSE DEFAULT_DWC_CORE_FIELDS
        /\ Len(run.opened) = 1 => pc = "config_map"
        /\ Len(run.opened) = 2 =>
             /\ run.opened = <<"dwc_core_fields.json", "basis_of_record_map.json">>
             /\ basis_of_record_map =
                   IF fs.basis_of_record_map_json.state = "json"
                      /\ IsDict(fs.basis_of_record_map_json.data)
                   THEN fs.basis_of_record_map_json.data
                   ELSE DEFAULT_BASIS_OF_RECORD_MAP
             /\ pc \in {"mkdir", "export", "normalize", "extras", "open", "header",
                        "rows", "done", "returned", "raised"}
             /\ pc = "raised" => n > 0 /\ StatusRaises(records[n])
        /\ (pc \in {"config", "config_map"} \/ Len(run.opened) = 0) => pc # "mkdir"

\* a run returned with rows written under the built-in default schema, because
\* dwc_core_fields.json holds a mapping, and under the vocabulary map loaded
\* from basis_of_record_map.json
C15_Witness ==
    /\ pc = "returned"
    /\ run.config_dir
    /\ fs.dwc_core_fields_json.state = "json"
    /\ IsDict(fs.dwc_core_fields_json.data)
    /\ dwc_fields = DEFAULT_DWC_CORE_FIELDS
    /\ fs.basis_of_record_map_json.state = "json"
    /\ basis_of_record_map = fs.basis_of_record_map_json.data
    /\ basis_of_record_map # DEFAULT_BASIS_OF_RECORD_MAP
    /\ Len(csv_file.lines) = 3

-----------------------------------------------------------------------------
(* Raw values in the exported rows (SpecExport)                             *)

\* C16: when the export returns, the row of the i-th mapping entry holds under
\* every extra column the value of that same entry (as text, a list or a
\* mapping as JSON text), or the normalized value where the normalizer
\* produced the key, whatever entries that are no mapping come before it in
\* the input list.
C16_RowAlignment ==
    pc = "done" =>
        LET mappings == SelectSeq(records, IsDict)
        IN  \A i \in 1..Len(mappings) : \A j \in 1..Len(extra_keys) :
                /\ i + 1 <= Len(csv_file.lines)
                /\ csv_file.lines[i + 1].fields[Len(dwc_fields) + j] =
                     CsvField(CsvCell(
                        IF HasKey(core_rows[i], extra_keys[j])
                        THEN Get(core_rows[i], extra_keys[j])
                        ELSE Serialized(Get(mappings[i], extra_keys[j]))))

\* C19: when the export returns, a key of a mapping entry that is a column of
\* the schema and that the normalizer does not produce (associatedMedia under
\* the default schema) has its raw value in that column of the entry's row.
C19_SchemaColumnKeepsRawValue ==
    pc = "done" =>
        LET mappings == SelectSeq(records, IsDict)
        IN  \A i \in 1..Len(mappings) : \A j \in 1..Len(dwc_fields) :
                (HasKey(mappings[i], dwc_fields[j]) /\ ~HasKey(core_rows[i], dwc_fields[j]))
                => csv_file.lines[i + 1].fields[j] =
                     CsvField(CsvCell(Serialized(Get(mappings[i], dwc_fields[j]))))

-----------------------------------------------------------------------------
(* The header under the built-in default schema (SpecPipeline)              *)

\* C20: when dwc_normalise_to_csv exports under the built-in default schema,
\* no column name appears twice in the header line, and every key of every
\* normalized record (references and datasetID among them) is a column of the
\* header.
C20_DefaultHeaderWellFormed ==
    (/\ dwc_fields = DEFAULT_DWC_CORE_FIELDS
     /\ pc \in {"rows", "done", "returned"})
    => LET header == csv_file.lines[1].fields
       IN  /\ csv_file.lines[1].kind = "header"
           /\ \A a \in 1..Len(header) : \A b \in 1..Len(header) :
                 header[a] = header[b] => a = b
           /\ \A i \in 1..Len(core_rows) : \A j \in 1..Len(core_rows[i].items) :
                 \E a \in 1..Len(header) : header[a] = core_rows[i].items[j][1]

-----------------------------------------------------------------------------
(* Orchestration (SpecBackend)                                              *)

\* C18: in a run of app_backend.main (with a well-formed command line),
\* fetch_plantnet is the first function entered, dwc_normalise_to_csv is
\* entered only after fetch_plantnet returned with the raw file written, and
\* a run in which the server answers the request with a 2xx status and a JSON
\* body and the raw file can be written ends in the call of
\* dwc_normalise_to_csv on that raw file.
C18_BackendSequencing ==
    (run.entry = "app_backend.py" /\ run.bbox # "invalid") =>
        /\ pc \notin {"main", "call_fetch_plantnet"} =>
             Len(run.calls) >= 1 /\ run.calls[1] = "fetch_plantnet"
        /\ (\E i \in 1..Len(run.calls) : run.calls[i] = "dwc_normalise_to_csv") =>
             /\ run.calls = <<"fetch_plantnet", "dwc_normalise_to_csv">>
             /\ fs.raw_json = Json(run.body)
        /\ (run.server = "ok_json" /\ run.writable) => pc # "raised"

=============================================================================
